---- MODULE Spec2Model ----
(***************************************************************************)
(* A model of app.py, the Flask wine-catalogue application: the "wines"    *)
(* collection, the GridFS bucket "flags", and the six routes                *)
(*   GET /, GET /search, GET /wine/<id>, GET /image/<id>,                   *)
(*   POST /wine/<id>/comment, GET /provinces.                               *)
(*                                                                         *)
(* Strings are sequences of one-character strings, so that strip(),        *)
(* slicing, re.escape() and float() are computed as Python computes them.  *)
(* A null (None / missing) string field is NullStr, a null number NullNum. *)
(* Numbers that come from float() are kept in tenths (fixed point).        *)
(***************************************************************************)
EXTENDS Integers, Sequences, FiniteSets, TLC

VARIABLES
    wines,       \* the collection: a sequence of documents in natural order
    fs,          \* files: the GridFS bucket "flags", file id -> [filename,
                 \* content_type]; default_png: static/default.png exists
    oidCounter,  \* the process-wide counter behind ObjectId()
    pc,          \* per client: where its POST /wine/<id>/comment stands
    creq,        \* per client: the comment request in flight
    cresp,       \* per client: the response to its comment request
    req,         \* the last read request (route and raw parameters)
    resp,        \* the response to the last read request
    wines0       \* history: the collection as the data load left it

vars == <<wines, fs, oidCounter, pc, creq, cresp, req, resp, wines0>>

----------------------------------------------------------------------------
(* Strings                                                                 *)

NullStr == <<"<null>">>
NullNum == -1

Whitespace == {" "}

RECURSIVE LStrip(_)
LStrip(s) ==
    IF s # <<>> /\ Head(s) \in Whitespace THEN LStrip(Tail(s)) ELSE s

RECURSIVE RStrip(_)
RStrip(s) ==
    IF s # <<>> /\ s[Len(s)] \in Whitespace
    THEN RStrip(SubSeq(s, 1, Len(s) - 1))
    ELSE s

\* str.strip()
Strip(s) == RStrip(LStrip(s))

\* s[:n]
Take(s, n) == IF Len(s) <= n THEN s ELSE SubSeq(s, 1, n)

\* `x or d` on strings: the empty string is falsy
OrStr(x, d) == IF x = <<>> THEN d ELSE x

UpperChars == <<"A", "B", "C", "D", "E", "F", "G", "H", "I", "J", "K", "L", "M",
                "N", "O", "P", "Q", "R", "S", "T", "U", "V", "W", "X", "Y", "Z">>
LowerChars == <<"a", "b", "c", "d", "e", "f", "g", "h", "i", "j", "k", "l", "m",
                "n", "o", "p", "q", "r", "s", "t", "u", "v", "w", "x", "y", "z">>

LowerChar(c) ==
    IF \E i \in 1..Len(UpperChars) : UpperChars[i] = c
    THEN LowerChars[CHOOSE i \in 1..Len(UpperChars) : UpperChars[i] = c]
    ELSE c

\* str.lower()
Lower(s) == [i \in 1..Len(s) |-> LowerChar(s[i])]

\* t occurs in s as a contiguous substring
Contains(s, t) ==
    \E k \in 0..(Len(s) - Len(t)) :
        \A i \in 1..Len(t) : s[k + i] = t[i]

----------------------------------------------------------------------------
(* float(): [sign] digits [. digits] | [sign] . digits, after stripping.   *)
(* The value is returned in tenths; the model's inputs carry at most one   *)
(* fractional digit.                                                       *)

Digits == <<"0", "1", "2", "3", "4", "5", "6", "7", "8", "9">>
IsDigit(c) == \E i \in 1..10 : Digits[i] = c
DigitVal(c) == (CHOOSE i \in 1..10 : Digits[i] = c) - 1

RECURSIVE IntVal(_)
IntVal(s) ==
    IF s = <<>> THEN 0
    ELSE 10 * IntVal(SubSeq(s, 1, Len(s) - 1)) + DigitVal(s[Len(s)])

AllDigits(s) == \A i \in 1..Len(s) : IsDigit(s[i])

DotAt(s) == IF \E i \in 1..Len(s) : s[i] = "."
            THEN CHOOSE i \in 1..Len(s) : s[i] = "." /\ \A j \in 1..(i - 1) : s[j] # "."
            ELSE 0

\* unsigned body -> [ok, tenths]
ParseUnsigned(s) ==
    LET d == DotAt(s) IN
    IF d = 0
    THEN [ok |-> s # <<>> /\ AllDigits(s), tenths |-> IF s # <<>> /\ AllDigits(s) THEN 10 * IntVal(s) ELSE 0]
    ELSE LET ip == SubSeq(s, 1, d - 1)
             fp == SubSeq(s, d + 1, Len(s))
             good == AllDigits(ip) /\ AllDigits(fp) /\ (ip # <<>> \/ fp # <<>>)
         IN [ok |-> good,
             tenths |-> IF good
                        THEN 10 * IntVal(ip) + (IF fp = <<>> THEN 0 ELSE DigitVal(fp[1]))
                        ELSE 0]

\* float(s): ok = FALSE stands for ValueError
ParseFloat(raw) ==
    LET s == Strip(raw) IN
    IF s # <<>> /\ Head(s) = "-"
    THEN LET u == ParseUnsigned(Tail(s)) IN [ok |-> u.ok, tenths |-> 0 - u.tenths]
    ELSE IF s # <<>> /\ Head(s) = "+"
    THEN ParseUnsigned(Tail(s))
    ELSE ParseUnsigned(s)

\* mutant of km_to_meters: the default radius when float() raises
km_to_meters_default(km) ==
    LET f == ParseFloat(km) IN
    IF f.ok THEN f.tenths * 100 ELSE 50000

\* km_to_meters: float(km) * 1000.0, 0.0 when float() raises.  Meters.
km_to_meters(km) ==
    LET f == ParseFloat(km) IN
    IF f.ok THEN f.tenths * 100 ELSE 0

----------------------------------------------------------------------------
(* Regular expressions: re.escape and the search of a compiled pattern.    *)

\* the characters re.escape puts a backslash before
RegexSpecial == {".", "*", "+", "?", "(", ")", "[", "]", "{", "}", "|", "^",
                 "$", "\\", "-", "&", "~", "#", " "}

RECURSIVE EscapeSeq(_)
EscapeSeq(s) ==
    IF s = <<>> THEN <<>>
    ELSE (IF Head(s) \in RegexSpecial THEN <<"\\", Head(s)>> ELSE <<Head(s)>>)
         \o EscapeSeq(Tail(s))

\* mutant of regex_safe: the text is used as the pattern, unescaped
regex_safe_raw(s) == s

\* regex_safe(s) = re.escape(s or "")
regex_safe(s) == EscapeSeq(s)

\* A pattern is read as a sequence of atoms: \c is the literal c, an
\* unescaped "." is any character, every other character is itself.
RECURSIVE Atoms(_)
Atoms(p) ==
    IF p = <<>> THEN <<>>
    ELSE IF Head(p) = "\\" /\ Len(p) >= 2
         THEN <<[any |-> FALSE, ch |-> p[2]]>> \o Atoms(SubSeq(p, 3, Len(p)))
         ELSE IF Head(p) = "."
              THEN <<[any |-> TRUE, ch |-> "."]>> \o Atoms(Tail(p))
              ELSE <<[any |-> FALSE, ch |-> Head(p)]>> \o Atoms(Tail(p))

\* re.compile(src, re.IGNORECASE)
Compile(src, icase) == [src |-> src, icase |-> icase]

AtomMatches(a, c, icase) ==
    a.any \/ (IF icase THEN LowerChar(a.ch) = LowerChar(c) ELSE a.ch = c)

\* the pattern is found somewhere in the value (an unanchored search);
\* a null value is matched by no pattern
RegexSearch(r, value) ==
    /\ value # NullStr
    /\ LET as == Atoms(r.src) IN
       \E k \in 0..(Len(value) - Len(as)) :
           \A i \in 1..Len(as) : AtomMatches(as[i], value[k + i], r.icase)

----------------------------------------------------------------------------
(* Ordering of strings (sorted(..., key=str)): code-point order.           *)

AsciiOrder == <<" ", "#", "&", ".", "0", "1", "2", "3", "4", "5", "6", "7",
                "8", "9", "<", ">", "A", "B", "C", "D", "E", "F", "G", "H",
                "I", "J", "K", "L", "M", "N", "O", "P", "Q", "R", "S", "T",
                "U", "V", "W", "X", "Y", "Z", "_", "a", "b", "c", "d", "e",
                "f", "g", "h", "i", "j", "k", "l", "m", "n", "o", "p", "q",
                "r", "s", "t", "u", "v", "w", "x", "y", "z">>

Ord(c) == CHOOSE i \in 1..Len(AsciiOrder) : AsciiOrder[i] = c

RECURSIVE StrLess(_, _)
StrLess(a, b) ==
    IF b = <<>> THEN FALSE
    ELSE IF a = <<>> THEN TRUE
    ELSE IF Head(a) = Head(b) THEN StrLess(Tail(a), Tail(b))
    ELSE Ord(Head(a)) < Ord(Head(b))

\* sorted(S, key=str) of a set of distinct strings
RECURSIVE SortedStrings(_)
SortedStrings(S) ==
    IF S = {} THEN <<>>
    ELSE LET m == CHOOSE x \in S : \A y \in S \ {x} : StrLess(x, y)
         IN <<m>> \o SortedStrings(S \ {m})

----------------------------------------------------------------------------
(* The collection and the evaluation of a query against it.                *)

NoLocation == [type |-> "none", lon |-> 0, lat |-> 0]
Point(lon, lat) == [type |-> "Point", lon |-> lon, lat |-> lat]

\* a document of the collection "wines"
Wine(id, title, description, winery, variety, country, province, points, price, location, country_image, comments) ==
    [_id |-> id, title |-> title, description |-> description,
     winery |-> winery, variety |-> variety, country |-> country,
     province |-> province, points |-> points, price |-> price,
     location |-> location, country_image |-> country_image,
     comments |-> comments]

Indexes(coll) == 1..Len(coll)

\* the words of a string, lower-cased (the tokens of the text index)
RECURSIVE Words(_)
Words(s) ==
    LET t == LStrip(s) IN
    IF t = <<>> THEN {}
    ELSE LET stop == IF \E i \in 1..Len(t) : t[i] \in Whitespace
                     THEN CHOOSE i \in 1..Len(t) :
                              t[i] \in Whitespace /\ \A j \in 1..(i - 1) : t[j] \notin Whitespace
                     ELSE Len(t) + 1
         IN {Lower(SubSeq(t, 1, stop - 1))} \cup Words(SubSeq(t, stop, Len(t)))

TextIndexFields == <<"title", "description", "winery", "variety">>

\* {"$text": {"$search": q}}: some term of q is a word of an indexed field
TextSearch(doc, q) ==
    \E i \in 1..Len(TextIndexFields) :
        /\ doc[TextIndexFields[i]] # NullStr
        /\ Words(q) \cap Words(doc[TextIndexFields[i]]) # {}

\* 6378100 m, the radius that turns meters into radians
EARTH_RADIUS_M == 6378100

\* kilometers per degree of arc on that sphere (radius * pi / 180)
KmPerDegree == (EARTH_RADIUS_M * 10) \div 572958

\* {"location": {"$geoWithin": {"$centerSphere": [center, max_m / R]}}}
\* center = [lonN, latN, den] stands for the point (lonN/den, latN/den) in
\* degrees.  Distances are taken in the plane, in whole kilometers.
GeoWithin(doc, center, max_m) ==
    /\ doc.location.type = "Point"
    /\ LET dx == center.den * doc.location.lon - center.lonN
           dy == center.den * doc.location.lat - center.latN
           rk == center.den * (max_m \div 1000)
       IN (dx * dx + dy * dy) * KmPerDegree * KmPerDegree <= rk * rk

\* one clause of the filter list
Matches(doc, f) ==
    CASE f.op = "text" -> TextSearch(doc, f.search)
      [] f.op = "or_regex" ->
            \E i \in 1..Len(f.fields) : RegexSearch(f.r, doc[f.fields[i]])
      [] f.op = "regex" -> RegexSearch(f.r, doc[f.field])
      [] f.op = "eq" -> doc[f.field] = f.value
      [] f.op = "geoWithin" -> GeoWithin(doc, f.center, f.max_m)

\* query = {"$and": filters} if filters else {}
MatchesQuery(doc, filters) ==
    \A i \in 1..Len(filters) : Matches(doc, filters[i])

\* mutant of count_documents: the matches counted up to the page size
count_documents_page(coll, filters) ==
    LET n == Cardinality({i \in Indexes(coll) : MatchesQuery(coll[i], filters)})
    IN IF n > 50 THEN 50 ELSE n

\* coll.count_documents(query)
count_documents(coll, filters) ==
    Cardinality({i \in Indexes(coll) : MatchesQuery(coll[i], filters)})

\* coll.find(query): the matching documents in natural order
Find(coll, filters) == SelectSeq(coll, LAMBDA d : MatchesQuery(d, filters))

ASCENDING == 1
DESCENDING == -1

\* BSON order on the sort key: null sorts before every number
KeyBefore(a, b, dir) == IF dir = ASCENDING THEN a < b ELSE a > b

RECURSIVE InsertDoc(_, _, _, _)
InsertDoc(sorted, d, key, dir) ==
    IF sorted = <<>> THEN <<d>>
    ELSE IF KeyBefore(d[key], Head(sorted)[key], dir)
         THEN <<d>> \o sorted
         ELSE <<Head(sorted)>> \o InsertDoc(Tail(sorted), d, key, dir)

RECURSIVE SortDocs(_, _, _)
SortDocs(docs, key, dir) ==
    IF docs = <<>> THEN <<>>
    ELSE InsertDoc(SortDocs(SubSeq(docs, 1, Len(docs) - 1), key, dir),
                   docs[Len(docs)], key, dir)

Reverse(s) == [i \in 1..Len(s) |-> s[Len(s) + 1 - i]]

\* cursor.sort([(key, dir)]).  The order of documents with equal keys is
\* not fixed by the database: tie = "natural" or "reverse" picks one.
CursorSort(docs, sort_order, tie) ==
    SortDocs(IF tie = "natural" THEN docs ELSE Reverse(docs),
             sort_order[1][1], sort_order[1][2])

\* the projection of the result list
Project(d) ==
    [_id |-> d._id, title |-> d.title, country |-> d.country,
     province |-> d.province, variety |-> d.variety, winery |-> d.winery,
     points |-> d.points, price |-> d.price, country_image |-> d.country_image]

ProjectAll(docs) == [i \in 1..Len(docs) |-> Project(docs[i])]

\* coll.distinct(field, query) with query = {"country": c} or {}
Distinct(coll, field, country) ==
    {coll[i][field] : i \in {j \in Indexes(coll) :
                                country = <<>> \/ coll[j].country = country}}

\* `if c`: None and "" are dropped
Truthy(S) == {x \in S : x # NullStr /\ x # <<>>}

FILTER_MAX == 250
PROVINCES_MAX == 300

get_filter_lists(coll) ==
    [countries |-> Take(SortedStrings(Truthy(Distinct(coll, "country", <<>>))), FILTER_MAX),
     provinces |-> Take(SortedStrings(Truthy(Distinct(coll, "province", <<>>))), FILTER_MAX)]

----------------------------------------------------------------------------
(* The two aggregations.                                                   *)

\* the sum of the values of a function with a finite domain
RECURSIVE SumFn(_)
SumFn(f) ==
    IF DOMAIN f = {} THEN 0
    ELSE LET i == CHOOSE j \in DOMAIN f : TRUE
         IN f[i] + SumFn([j \in DOMAIN f \ {i} |-> f[j]])

NoCenter == [found |-> FALSE, lonN |-> 0, latN |-> 0, den |-> 1]

\* mutant of centroid_for: the exception of the aggregation is not caught
centroid_for_uncaught(coll, country, province, fails) ==
    LET I == {i \in Indexes(coll) :
                 /\ country # <<>> => coll[i].country = country
                 /\ province # <<>> => coll[i].province = province
                 /\ coll[i].location.type = "Point"}
    IN IF fails THEN [raised |-> TRUE, center |-> NoCenter]
       ELSE IF I = {} THEN [raised |-> FALSE, center |-> NoCenter]
       ELSE [raised |-> FALSE,
             center |-> [found |-> TRUE,
                         lonN |-> SumFn([i \in I |-> coll[i].location.lon]),
                         latN |-> SumFn([i \in I |-> coll[i].location.lat]),
                         den |-> Cardinality(I)]]

\* centroid_for(db, country, province): the average [lon, lat] of the
\* matching documents that carry a Point, None when there is none or when
\* the aggregation raises (`fails`).  An argument None or "" is <<>>.
\* raised = TRUE would stand for an exception leaving the function.
centroid_for(coll, country, province, fails) ==
    LET I == {i \in Indexes(coll) :
                 /\ country # <<>> => coll[i].country = country
                 /\ province # <<>> => coll[i].province = province
                 /\ coll[i].location.type = "Point"}
    IN IF fails \/ I = {}
       THEN [raised |-> FALSE, center |-> NoCenter]
       ELSE [raised |-> FALSE,
             center |-> [found |-> TRUE,
                         lonN |-> SumFn([i \in I |-> coll[i].location.lon]),
                         latN |-> SumFn([i \in I |-> coll[i].location.lat]),
                         den |-> Cardinality(I)]]

\* A Python dict display: a later pair replaces an earlier one with the
\* same key.
PyDict(pairs) ==
    [k \in {pairs[i][1] : i \in 1..Len(pairs)} |->
        pairs[CHOOSE i \in 1..Len(pairs) :
                  /\ pairs[i][1] = k
                  /\ \A j \in (i + 1)..Len(pairs) : pairs[j][1] # k][2]]

\* {"variety": {"$ne": None, "$ne": ""}} as the interpreter builds it
VarietyCondition == PyDict(<< <<"$ne", NullStr>>, <<"$ne", <<>> >> >>)

\* {"$match": {field: cond}} for a condition made of "$ne" only
MatchNe(value, cond) == "$ne" \in DOMAIN cond => value # cond["$ne"]

NullAvg == [num |-> 0, den |-> 0]

\* {"$avg": "$field"}: the mean of the numeric values, null without any
Avg(coll, I, field) ==
    LET N == {i \in I : coll[i][field] # NullNum}
    IN IF N = {} THEN NullAvg
       ELSE [num |-> SumFn([i \in N |-> coll[i][field]]), den |-> Cardinality(N)]

StatsNone == [none |-> TRUE]

\* get_country_stats(db, country_name): the set of results the aggregation
\* can return (the $sort on count leaves the order of equal counts open),
\* {StatsNone} for an empty country name or when the aggregation raises.
get_country_stats(coll, country_name, fails) ==
    IF country_name = <<>> \/ fails THEN {StatsNone}
    ELSE LET I == {i \in Indexes(coll) : coll[i].country = country_name}
             V == {i \in I : MatchNe(coll[i].variety, VarietyCondition)}
             groups == {coll[i].variety : i \in V}
             count(g) == Cardinality({i \in V : coll[i].variety = g})
             top == {g \in groups : \A h \in groups : count(h) <= count(g)}
             \* $arrayElemAt of an empty branch is missing; $ifNull -> None
             first == IF top = {} THEN {NullStr} ELSE top
         IN {[avgPrice |-> Avg(coll, I, "price"),
              avgPoints |-> Avg(coll, I, "points"),
              topVariety |-> t] : t \in first}

----------------------------------------------------------------------------
(* GET /search                                                             *)

S_all == <<"a", "l", "l">>
S_title == <<"t", "i", "t", "l", "e">>
S_description == <<"d", "e", "s", "c", "r", "i", "p", "t", "i", "o", "n">>
S_variety == <<"v", "a", "r", "i", "e", "t", "y">>
S_winery == <<"w", "i", "n", "e", "r", "y">>
S_by_area == <<"b", "y", "_", "a", "r", "e", "a">>
S_by_coords == <<"b", "y", "_", "c", "o", "o", "r", "d", "s">>
S_50 == <<"5", "0">>
S_1 == <<"1">>
S_price_asc == <<"p", "r", "i", "c", "e", "_", "a", "s", "c">>
S_price_desc == <<"p", "r", "i", "c", "e", "_", "d", "e", "s", "c">>
S_points_asc == <<"p", "o", "i", "n", "t", "s", "_", "a", "s", "c">>
S_points_desc == <<"p", "o", "i", "n", "t", "s", "_", "d", "e", "s", "c">>
S_anonymous == <<"a", "n", "o", "n", "y", "m", "o", "u", "s">>

\* the name of a document field from the value of `field`
FieldName(f) ==
    CASE f = S_title -> "title"
      [] f = S_description -> "description"
      [] f = S_variety -> "variety"
      [] f = S_winery -> "winery"

\* "Get inputs": a is the record of raw query parameters, <<>> when absent
ParseArgs(a) ==
    LET radius_str == Strip(OrStr(a.radius, S_50)) IN
    [q |-> Strip(OrStr(a.q, <<>>)),
     field |-> Strip(OrStr(a.field, S_all)),
     use_text |-> OrStr(a.text, <<>>) = S_1,
     country_filter |-> Strip(OrStr(a.country, <<>>)),
     province_filter |-> Strip(OrStr(a.province, <<>>)),
     geo_mode |-> Strip(OrStr(a.geo_mode, S_by_area)),
     lat_str |-> Strip(OrStr(a.lat, <<>>)),
     lon_str |-> Strip(OrStr(a.lon, <<>>)),
     radius_str |-> radius_str,
     max_m |-> km_to_meters(radius_str),
     sort_by |-> Strip(OrStr(a.sort_by, S_points_desc))]

\* "(Text search logic)"
TextFilters(p) ==
    IF p.q = <<>> THEN <<>>
    ELSE IF p.use_text THEN <<[op |-> "text", search |-> p.q]>>
    ELSE LET r == Compile(regex_safe(p.q), TRUE) IN
         IF p.field = S_all
         THEN <<[op |-> "or_regex",
                 fields |-> <<"title", "description", "winery", "variety">>,
                 r |-> r]>>
         ELSE IF p.field \in {S_title, S_description, S_variety, S_winery}
         THEN <<[op |-> "regex", field |-> FieldName(p.field), r |-> r]>>
         ELSE <<>>

\* "(Facet filters)"
FacetFilters(p) ==
    (IF p.country_filter # <<>>
     THEN <<[op |-> "eq", field |-> "country", value |-> p.country_filter]>>
     ELSE <<>>)
    \o
    (IF p.province_filter # <<>>
     THEN <<[op |-> "eq", field |-> "province", value |-> p.province_filter]>>
     ELSE <<>>)

GeoClause(center, max_m) ==
    [op |-> "geoWithin", center |-> center, max_m |-> max_m]

\* mutant of GeoFilters: a latitude or longitude that float() rejects is
\* taken as 0.0
GeoFilters_zero(coll, p, centroidFails) ==
    IF /\ p.geo_mode = S_by_area
       /\ p.max_m > 0
       /\ (p.country_filter # <<>> \/ p.province_filter # <<>>)
    THEN LET c == centroid_for(coll, p.country_filter, p.province_filter, centroidFails)
         IN [raised |-> c.raised,
             center_coords |-> c.center,
             filters |-> IF ~c.raised /\ c.center.found
                         THEN <<GeoClause(c.center, p.max_m)>> ELSE <<>>]
    ELSE IF /\ p.geo_mode = S_by_coords
            /\ p.max_m > 0
            /\ p.lat_str # <<>>
            /\ p.lon_str # <<>>
    THEN LET c == [found |-> TRUE, lonN |-> ParseFloat(p.lon_str).tenths,
                   latN |-> ParseFloat(p.lat_str).tenths, den |-> 10]
         IN [raised |-> FALSE, center_coords |-> c,
             filters |-> <<GeoClause(c, p.max_m)>>]
    ELSE [raised |-> FALSE, center_coords |-> NoCenter, filters |-> <<>>]

\* "(Geospatial logic)": [raised, center_coords, filters]
GeoFilters(coll, p, centroidFails) ==
    IF /\ p.geo_mode = S_by_area
       /\ p.max_m > 0
       /\ (p.country_filter # <<>> \/ p.province_filter # <<>>)
    THEN LET c == centroid_for(coll, p.country_filter, p.province_filter, centroidFails)
         IN [raised |-> c.raised,
             center_coords |-> c.center,
             filters |-> IF ~c.raised /\ c.center.found
                         THEN <<GeoClause(c.center, p.max_m)>> ELSE <<>>]
    ELSE IF /\ p.geo_mode = S_by_coords
            /\ p.max_m > 0
            /\ p.lat_str # <<>>
            /\ p.lon_str # <<>>
    THEN LET lat == ParseFloat(p.lat_str)
             lon == ParseFloat(p.lon_str)
         IN IF lat.ok /\ lon.ok
            THEN LET c == [found |-> TRUE, lonN |-> lon.tenths,
                           latN |-> lat.tenths, den |-> 10]
                 IN [raised |-> FALSE, center_coords |-> c,
                     filters |-> <<GeoClause(c, p.max_m)>>]
            ELSE [raised |-> FALSE, center_coords |-> NoCenter, filters |-> <<>>]
    ELSE [raised |-> FALSE, center_coords |-> NoCenter, filters |-> <<>>]

\* mutant of SortOrder: the default branch sorts ascending
SortOrder_asc(sort_by) ==
    IF sort_by = S_price_asc THEN << <<"price", ASCENDING>> >>
    ELSE IF sort_by = S_price_desc THEN << <<"price", DESCENDING>> >>
    ELSE << <<"points", ASCENDING>> >>

\* "Determine sort order"
SortOrder(sort_by) ==
    IF sort_by = S_price_asc THEN << <<"price", ASCENDING>> >>
    ELSE IF sort_by = S_price_desc THEN << <<"price", DESCENDING>> >>
    ELSE IF sort_by = S_points_asc THEN << <<"points", ASCENDING>> >>
    ELSE << <<"points", DESCENDING>> >>

PAGE_LIMIT == 50

\* an exception that leaves a handler: Flask answers 500
ServerError(route) == [route |-> route, status |-> 500]

\* search(): the response for raw parameters a.  centroidFails and
\* statsFails say whether the aggregation raises inside its function; tie
\* is the order the database leaves documents with equal sort keys in;
\* stats is the result the stats aggregation returns.
SearchResponse(coll, a, centroidFails, tie, stats) ==
    LET p == ParseArgs(a)
        geo == GeoFilters(coll, p, centroidFails)
        filters == TextFilters(p) \o FacetFilters(p) \o geo.filters
        sort_order == SortOrder(p.sort_by)
    IN IF geo.raised THEN ServerError("search")
       ELSE [route |-> "search", status |-> 200,
             args |-> p,
             filters |-> filters,
             center_coords |-> geo.center_coords,
             sort_order |-> sort_order,
             total |-> count_documents(coll, filters),
             results |-> Take(ProjectAll(CursorSort(Find(coll, filters), sort_order, tie)),
                              PAGE_LIMIT),
             stats |-> stats,
             lists |-> get_filter_lists(coll)]

search(a, centroidFails, statsFails, tie) ==
    \E stats \in get_country_stats(wines, ParseArgs(a).country_filter, statsFails) :
        /\ req' = [route |-> "search", args |-> a,
                   centroidFails |-> centroidFails, statsFails |-> statsFails]
        /\ resp' = SearchResponse(wines, a, centroidFails, tie, stats)
        /\ UNCHANGED <<wines, fs, oidCounter, pc, creq, cresp, wines0>>

----------------------------------------------------------------------------
(* GET /, GET /wine/<id>, GET /image/<id>, GET /provinces                  *)

\* An id of a URL: wf says whether ObjectId(id) accepts it (24 hex
\* digits), oid is the ObjectId it denotes.
Oid(n) == [wf |-> TRUE, oid |-> n]
MalformedId == [wf |-> FALSE, oid |-> 0]

\* coll.find_one({"_id": _id}): the index of the document, 0 without one
FindOne(coll, oid) ==
    IF \E i \in Indexes(coll) : coll[i]._id = oid
    THEN CHOOSE i \in Indexes(coll) : coll[i]._id = oid
    ELSE 0

index ==
    /\ req' = [route |-> "index"]
    /\ resp' = [route |-> "index", status |-> 200,
                results |-> <<>>, total |-> 0, stats |-> StatsNone,
                lists |-> get_filter_lists(wines)]
    /\ UNCHANGED <<wines, fs, oidCounter, pc, creq, cresp, wines0>>

wine_details(id) ==
    /\ req' = [route |-> "wine_details", id |-> id]
    /\ resp' = IF ~id.wf
               THEN [route |-> "wine_details", status |-> 400]
               ELSE LET i == FindOne(wines, id.oid) IN
                    IF i = 0
                    THEN [route |-> "wine_details", status |-> 404]
                    ELSE [route |-> "wine_details", status |-> 200,
                          wine |-> wines[i]]
    /\ UNCHANGED <<wines, fs, oidCounter, pc, creq, cresp, wines0>>

\* filename.rsplit('.', 1)[1].lower()
Extension(filename) ==
    LET d == CHOOSE i \in 1..Len(filename) :
                 filename[i] = "." /\ \A j \in (i + 1)..Len(filename) : filename[j] # "."
    IN Lower(SubSeq(filename, d + 1, Len(filename)))

\* the content type get_image answers with; "raise" when `'.' in filename`
\* is evaluated on a file without a name
MimeType(f) ==
    IF f.content_type # "" THEN f.content_type
    ELSE IF f.filename = NullStr THEN "raise"
    ELSE IF \E i \in 1..Len(f.filename) : f.filename[i] = "."
    THEN LET ext == Extension(f.filename) IN
         IF ext = <<"p", "n", "g">> THEN "image/png"
         ELSE IF ext \in {<<"j", "p", "g">>, <<"j", "p", "e", "g">>} THEN "image/jpeg"
         ELSE IF ext = <<"g", "i", "f">> THEN "image/gif"
         ELSE "application/octet-stream"
    ELSE "application/octet-stream"

get_image(id) ==
    /\ req' = [route |-> "get_image", id |-> id]
    /\ resp' = IF /\ id.wf
                  /\ id.oid \in DOMAIN fs.files
                  /\ MimeType(fs.files[id.oid]) # "raise"
               THEN [route |-> "get_image", status |-> 200,
                     mimetype |-> MimeType(fs.files[id.oid]), body |-> id.oid]
               ELSE IF fs.default_png
               THEN [route |-> "get_image", status |-> 200,
                     mimetype |-> "image/png", body |-> 0]
               ELSE [route |-> "get_image", status |-> 404]
    /\ UNCHANGED <<wines, fs, oidCounter, pc, creq, cresp, wines0>>

provinces_for_country(country) ==
    /\ req' = [route |-> "provinces", country |-> country]
    /\ resp' = [route |-> "provinces", status |-> 200,
                provinces |-> Take(SortedStrings(Truthy(
                                  Distinct(wines, "province", Strip(OrStr(country, <<>>))))),
                                  PROVINCES_MAX)]
    /\ UNCHANGED <<wines, fs, oidCounter, pc, creq, cresp, wines0>>

----------------------------------------------------------------------------
(* POST /wine/<id>/comment, in two steps: the handler up to the update,    *)
(* and the update_one the database applies atomically, with the response.  *)

\* the first ObjectId() the process generates
FirstOid == 100

\* how many comments the clients build in all
MaxComments == 2

TEXT_MAX == 2000
AUTHOR_MAX == 120

NoRequest == [id |-> MalformedId]
NoResponse == [status |-> 0]

\* mutant of Push: the comment is put in front of the list
Push_front(doc, comment) == [doc EXCEPT !.comments = <<comment>> \o @]

\* {"$push": {"comments": comment}} on one document
Push(doc, comment) == [doc EXCEPT !.comments = Append(@, comment)]

\* mutant of update_one: a $set of the list as it was read earlier, plus
\* the comment, in place of the $push
update_one_set(coll, oid, comment) ==
    LET i == FindOne(coll, oid) IN
    [matched_count |-> IF i = 0 THEN 0 ELSE 1,
     coll |-> IF i = 0 THEN coll
              ELSE [coll EXCEPT ![i].comments = Append(wines0[i].comments, comment)]]

\* coll.update_one({"_id": _id}, {"$push": {"comments": comment}}):
\* the first document that matches is updated, none is inserted
update_one(coll, oid, comment) ==
    LET i == FindOne(coll, oid) IN
    [matched_count |-> IF i = 0 THEN 0 ELSE 1,
     coll |-> IF i = 0 THEN coll ELSE [coll EXCEPT ![i] = Push(@, comment)]]

\* mutant of CommentText: the text is not stripped
CommentText_nostrip(text) == Take(OrStr(text, <<>>), TEXT_MAX)

\* the text of a comment as the handler takes it from the form
CommentText(text) == Take(Strip(OrStr(text, <<>>)), TEXT_MAX)

CommentAuthor(author) ==
    OrStr(Take(Strip(OrStr(author, S_anonymous)), AUTHOR_MAX), S_anonymous)

\* add_comment up to the update: validation and the new comment
add_comment_begin(c, id, text, author) ==
    /\ pc[c] = "idle"
    /\ IF CommentText(text) = <<>>
       THEN /\ cresp' = [cresp EXCEPT ![c] = [status |-> 400, body |-> "Comment text is required"]]
            /\ creq' = [creq EXCEPT ![c] = [id |-> id, text |-> text]]
            /\ pc' = [pc EXCEPT ![c] = "done"]
            /\ UNCHANGED oidCounter
       ELSE IF ~id.wf
       THEN /\ cresp' = [cresp EXCEPT ![c] = [status |-> 400, body |-> "Invalid ID"]]
            /\ creq' = [creq EXCEPT ![c] = [id |-> id, text |-> text]]
            /\ pc' = [pc EXCEPT ![c] = "done"]
            /\ UNCHANGED oidCounter
       ELSE /\ creq' = [creq EXCEPT ![c] =
                           [id |-> id, text |-> text,
                            comment |-> [_id |-> oidCounter,
                                         text |-> CommentText(text),
                                         author |-> CommentAuthor(author)]]]
            /\ oidCounter' = oidCounter + 1
            /\ pc' = [pc EXCEPT ![c] = "update"]
            /\ UNCHANGED cresp
    /\ UNCHANGED <<wines, fs, req, resp, wines0>>

\* the update and the response; `fails`: update_one raises, nothing applied
add_comment_update(c, fails) ==
    /\ pc[c] = "update"
    /\ LET res == update_one(wines, creq[c].id.oid, creq[c].comment) IN
       IF fails
       THEN /\ cresp' = [cresp EXCEPT ![c] = [status |-> 500, body |-> "Error adding comment"]]
            /\ UNCHANGED wines
       ELSE IF res.matched_count = 0
       THEN /\ cresp' = [cresp EXCEPT ![c] = [status |-> 404, body |-> "Wine not found"]]
            /\ wines' = res.coll
       ELSE /\ cresp' = [cresp EXCEPT ![c] = [status |-> 302, body |-> "wine_details"]]
            /\ wines' = res.coll
    /\ pc' = [pc EXCEPT ![c] = "done"]
    /\ UNCHANGED <<fs, oidCounter, creq, req, resp, wines0>>

\* a client whose request was answered sends its next one: the handler
\* is entered anew
next_request(c) ==
    /\ pc[c] = "done"
    /\ oidCounter < FirstOid + MaxComments
    /\ pc' = [pc EXCEPT ![c] = "idle"]
    /\ creq' = [creq EXCEPT ![c] = NoRequest]
    /\ cresp' = [cresp EXCEPT ![c] = NoResponse]
    /\ UNCHANGED <<wines, fs, oidCounter, req, resp, wines0>>

----------------------------------------------------------------------------
(* Data: the values the initial collections and the requests are drawn     *)
(* from.                                                                   *)

IT == <<"I", "T">>
FR == <<"F", "R">>
XX == <<"X", "X">>
P1 == <<"P", "1">>
P2 == <<"P", "2">>
P3 == <<"P", "3">>
Merlot == <<"M">>
Syrah == <<"S">>
Pad(s) == <<" ">> \o s \o <<" ">>

\* a document with the given facets, numbers and place
Doc(id, country, province, variety, points, price, location) ==
    Wine(id, <<"t">>, <<"d">>, <<"w">>, variety, country, province, points,
         price, location, NullNum, <<>>)

\* the collection of the templates ts (records without _id), ids by position
Load(ts) == [i \in 1..Len(ts) |-> [ts[i] EXCEPT !._id = i]]

\* all sequences over S of length 1..n
RECURSIVE SeqsUpTo(_, _)
SeqsUpTo(S, n) ==
    IF n = 0 THEN {<<>>}
    ELSE LET shorter == SeqsUpTo(S, n - 1)
         IN shorter \cup {Append(t, x) : t \in shorter, x \in S}

Files ==
    (7 :> [filename |-> <<"i", "t", ".", "P", "N", "G">>, content_type |-> ""])
    @@ (8 :> [filename |-> NullStr, content_type |-> ""])
    @@ (9 :> [filename |-> <<"f", "r">>, content_type |-> "image/gif"])

\* everything but the collection and the clients, as a request finds it
InitRest(nClients) ==
    /\ oidCounter = FirstOid
    /\ pc = [c \in 1..nClients |-> "idle"]
    /\ creq = [c \in 1..nClients |-> NoRequest]
    /\ cresp = [c \in 1..nClients |-> NoResponse]
    /\ req = [route |-> "none"]
    /\ resp = [route |-> "none", status |-> 0]
    /\ wines0 = wines

----------------------------------------------------------------------------
(* SpecComment: concurrent POST /wine/<id>/comment requests.               *)

NumClients == 2

LoadedComment == [_id |-> 50, text |-> <<"o", "l", "d">>, author |-> S_anonymous]

CommentCollections ==
    {<<[Doc(1, IT, P1, Merlot, 90, 10, NoLocation) EXCEPT !.comments = cs],
       Doc(2, FR, P3, Syrah, 85, 20, NoLocation)>> : cs \in {<<>>, <<LoadedComment>>}}

CommentIds == {Oid(1), Oid(3), MalformedId}
CommentTexts == {<<>>, <<" ">>, <<" ", "h", "i">>}
CommentAuthors == {<<>>, <<"b", "o">>}

InitComment ==
    /\ wines \in CommentCollections
    /\ fs = [files |-> Files, default_png |-> TRUE]
    /\ InitRest(NumClients)

NextComment ==
    \E c \in DOMAIN pc :
        \/ \E id \in CommentIds, text \in CommentTexts, author \in CommentAuthors :
               add_comment_begin(c, id, text, author)
        \/ \E fails \in BOOLEAN : add_comment_update(c, fails)

SpecComment == InitComment /\ [][NextComment]_vars


----------------------------------------------------------------------------
(* SpecRoutes: requests to all six routes, in any order.                   *)

NumRouteClients == 1

NoArgs ==
    [q |-> <<>>, field |-> <<>>, text |-> <<>>, country |-> <<>>,
     province |-> <<>>, geo_mode |-> <<>>, lat |-> <<>>, lon |-> <<>>,
     radius |-> <<>>, sort_by |-> <<>>]

RouteCollections ==
    {<<[Wine(1, <<"t">>, <<"d">>, <<"w">>, Merlot, IT, P1, 90, 10, Point(0, 0), 7, cs)
           EXCEPT !.comments = cs],
       Wine(2, <<"u">>, <<"d">>, <<"w">>, NullStr, FR, P3, 85, NullNum, NoLocation, NullNum, <<>>)>>
     : cs \in {<<>>, <<LoadedComment>>}}

RouteIds == {Oid(1), Oid(3), MalformedId}
ImageIds == {Oid(7), Oid(8), Oid(9), Oid(5), MalformedId}
RouteSearchArgs ==
    {NoArgs, [NoArgs EXCEPT !.q = <<"t">>],
     [NoArgs EXCEPT !.country = IT, !.sort_by = S_price_asc]}

InitRoutes ==
    /\ wines \in RouteCollections
    /\ fs \in {[files |-> Files, default_png |-> b] : b \in BOOLEAN}
    /\ InitRest(NumRouteClients)

NextRoutes ==
    \/ index
    \/ \E a \in RouteSearchArgs : search(a, FALSE, FALSE, "natural")
    \/ \E id \in RouteIds : wine_details(id)
    \/ \E id \in ImageIds : get_image(id)
    \/ \E country \in {<<>>, Pad(IT)} : provinces_for_country(country)
    \/ \E c \in DOMAIN pc, id \in {Oid(1), Oid(3)}, text \in {<<>>, <<"h", "i">>} :
           add_comment_begin(c, id, text, <<>>)
    \/ \E c \in DOMAIN pc, fails \in BOOLEAN : add_comment_update(c, fails)
    \/ \E c \in DOMAIN pc : next_request(c)

SpecRoutes == InitRoutes /\ [][NextRoutes]_vars

----------------------------------------------------------------------------
(* SpecText: GET /search with a query text, on collections whose records   *)
(* differ in the four searched fields.                                     *)

MaxTextWines == 1
MaxQLen == 2

TextDocs ==
    {Wine(0, t, d, <<"w">>, v, IT, P1, 90, 10, NoLocation, NullNum, <<>>) :
        t \in {<<"a", "x", "b">>, <<"A", ".", "B">>, <<"b", "a">>, <<>>},
        d \in {<<"d">>, <<"a", " ", "b">>},
        v \in {NullStr, <<"A">>}}

QChars == {"a", "B", ".", " "}
Queries == SeqsUpTo(QChars, MaxQLen) \cup {<<"a", ".", "b">>}

\* the values of (field, text) of the requests
FieldAndText ==
    {<<<<>>, <<>>>>, <<Pad(S_all), <<>>>>, <<S_title, <<>>>>,
     <<<<"z">>, <<>>>>, <<<<>>, S_1>>}

\* a search request that has arrived and is not answered yet
Pending(a, centroidFails, statsFails) ==
    [route |-> "pending", args |-> a,
     centroidFails |-> centroidFails, statsFails |-> statsFails]

\* the collection, and one search request to answer
InitSearch(collections, requests) ==
    /\ wines \in collections
    /\ fs = [files |-> Files, default_png |-> TRUE]
    /\ oidCounter = FirstOid
    /\ pc = <<>> /\ creq = <<>> /\ cresp = <<>>
    /\ req \in requests
    /\ resp = [route |-> "none", status |-> 0]
    /\ wines0 = wines

\* the pending request is answered
AnswerSearch ==
    /\ req.route = "pending"
    /\ \E tie \in {"natural", "reverse"} :
           search(req.args, req.centroidFails, req.statsFails, tie)

InitText ==
    InitSearch({Load(ts) : ts \in SeqsUpTo(TextDocs, MaxTextWines) \ {<<>>}},
               {Pending([NoArgs EXCEPT !.q = q, !.field = ft[1], !.text = ft[2]],
                        FALSE, FALSE) : q \in Queries, ft \in FieldAndText})

NextText == AnswerSearch

SpecText == InitText /\ [][NextText]_vars

----------------------------------------------------------------------------
(* SpecFacet: GET /search by facets and sort key, on small collections and *)
(* on one with more records than a page holds.                             *)

MaxFacetWines == 2
BulkLen == 52

FacetDocs ==
    {Doc(0, IT, P1, Merlot, 90, 10, Point(0, 0)),
     Doc(0, IT, P1, Merlot, 80, NullNum, Point(3, 0)),
     Doc(0, IT, P2, Syrah, 90, 20, NoLocation),
     Doc(0, FR, P3, Syrah, 85, 10, Point(0, 0))}

\* the j-th record of the large collection
BulkDoc(j) ==
    Doc(j, IT, IF j % 2 = 0 THEN P1 ELSE P2, Merlot, 80 + (j % 3),
        IF j % 5 = 0 THEN NullNum ELSE 10 + (j % 4),
        IF j % 7 = 0 THEN NoLocation ELSE Point(j % 2, 0))

BulkCollection == [j \in 1..BulkLen |-> BulkDoc(j)]

S_bogus == <<"b", "o", "g", "u", "s">>

FacetRequests ==
    {Pending([NoArgs EXCEPT !.q = q, !.country = c, !.province = pr,
                            !.geo_mode = g, !.radius = r, !.sort_by = sb],
             FALSE, FALSE) :
        q \in {<<>>, <<" ">>},
        c \in {<<>>, IT, Pad(IT), XX},
        pr \in {<<>>, P1},
        g \in {<<>>, <<"o", "f", "f">>},
        r \in {<<>>, <<"0">>},
        sb \in {<<>>, S_price_asc, S_price_desc, S_points_asc, S_points_desc,
                S_bogus, Pad(S_price_asc)}}

InitFacet ==
    InitSearch({Load(ts) : ts \in SeqsUpTo(FacetDocs, MaxFacetWines) \ {<<>>}}
                   \cup {BulkCollection},
               FacetRequests)

NextFacet == AnswerSearch

SpecFacet == InitFacet /\ [][NextFacet]_vars

----------------------------------------------------------------------------
(* SpecGeo: GET /search with the geo parameters, and with aggregations     *)
(* that raise.                                                             *)

MaxGeoWines == 2

GeoDocs ==
    {Doc(0, IT, P1, Merlot, 90, 10, Point(0, 0)),
     Doc(0, IT, P1, Syrah, 80, 10, Point(2, 0)),
     Doc(0, IT, P2, Syrah, 85, 10, NoLocation)}

GeoRequests ==
    {Pending([NoArgs EXCEPT !.q = q, !.country = c, !.geo_mode = g,
                            !.lat = lat, !.lon = lon, !.radius = r],
             cf, sf) :
        q \in {<<>>, Merlot},
        c \in {<<>>, IT},
        g \in {<<>>, S_by_coords, <<"o", "f", "f">>},
        lat \in {<<>>, <<"0">>, <<"x">>, <<"1", ".", "5">>},
        lon \in {<<>>, <<"0">>, <<"1", "x">>},
        r \in {<<>>, <<"0">>, <<"-", "5">>, <<"a", "b", "c">>, <<"3", "0", "0">>,
               <<" ">>},
        cf \in BOOLEAN, sf \in BOOLEAN}

InitGeo ==
    InitSearch({Load(ts) : ts \in SeqsUpTo(GeoDocs, MaxGeoWines) \ {<<>>}},
               GeoRequests)

NextGeo == AnswerSearch

SpecGeo == InitGeo /\ [][NextGeo]_vars

----------------------------------------------------------------------------
(* SpecStats: GET /search with a country facet, on collections whose       *)
(* records differ in variety and price.                                    *)

MaxStatsWines == 3

StatsDocs ==
    {Doc(0, c, P1, v, 90, pr, NoLocation) :
        c \in {IT, FR}, v \in {NullStr, <<>>, Merlot, Syrah}, pr \in {NullNum, 10}}

StatsRequests ==
    {Pending([NoArgs EXCEPT !.country = c], FALSE, sf) :
        c \in {IT, XX}, sf \in BOOLEAN}

InitStats ==
    InitSearch({Load(ts) : ts \in SeqsUpTo(StatsDocs, MaxStatsWines) \ {<<>>}},
               StatsRequests)

NextStats == AnswerSearch

SpecStats == InitStats /\ [][NextStats]_vars

----------------------------------------------------------------------------
(* The claims.                                                             *)

\* the clients whose comment request on document d was answered with the
\* success redirect
Succeeded(d) ==
    {c \in DOMAIN pc : cresp[c].status = 302 /\ creq[c].id.oid = d._id}

Occurrences(seq, x) == Cardinality({k \in 1..Len(seq) : seq[k] = x})

\* C1: in every interleaving of concurrent comment requests, each record's
\* comments sequence is as long as it was initially plus the number of
\* requests on it answered with the success redirect, and the comment of
\* each such request occurs in it exactly once.
C1_NoLostComment ==
    \A i \in Indexes(wines) :
        /\ Len(wines[i].comments)
               = Len(wines0[i].comments) + Cardinality(Succeeded(wines[i]))
        /\ \A c \in Succeeded(wines[i]) :
               Occurrences(wines[i].comments, creq[c].comment) = 1

\* two requests on the same record have both been answered with success
C1_Witness ==
    \E c, d \in DOMAIN pc :
        /\ c # d
        /\ cresp[c].status = 302 /\ cresp[d].status = 302
        /\ creq[c].id = creq[d].id
        /\ \A e \in DOMAIN pc : pc[e] = "done"

\* a request of client c is answered in this step
Answered(c) == pc[c] # "done" /\ pc'[c] = "done"

\* C2: a comment request whose text is empty or all whitespace, on an
\* existing id, is answered 400 and changes no record; a request with
\* valid text on a well-formed id that matches no record is answered 404
\* (500 if update_one raised) and changes no record.
C2_RejectedLeavesCollection ==
    [][\A c \in DOMAIN pc :
          /\ (/\ Answered(c)
              /\ Strip(creq'[c].text) = <<>>
              /\ creq'[c].id.wf /\ FindOne(wines, creq'[c].id.oid) # 0)
             => (cresp'[c].status = 400 /\ wines' = wines)
          /\ (/\ Answered(c)
              /\ Strip(creq'[c].text) # <<>>
              /\ creq'[c].id.wf /\ FindOne(wines, creq'[c].id.oid) = 0)
             => (/\ wines' = wines
                 /\ cresp'[c].status \in {404, 500}
                 /\ pc[c] = "update")
          /\ (/\ pc[c] = "idle" /\ pc'[c] = "update")
             => (Strip(creq'[c].text) # <<>> /\ creq'[c].id.wf /\ wines' = wines)
      ]_vars

\* one request with all-whitespace text on an existing id was answered 400
\* and one with valid text on a missing id was answered 404
C2_Witness ==
    \E c, d \in DOMAIN pc :
        /\ pc[c] = "done" /\ creq[c].text = <<" ">> /\ creq[c].id = Oid(1)
        /\ cresp[c].status = 400
        /\ pc[d] = "done" /\ creq[d].id = Oid(3) /\ cresp[d].status = 404


IsPrefix(s, t) == Len(s) <= Len(t) /\ SubSeq(t, 1, Len(s)) = s

WithoutComments(d) == [d EXCEPT !.comments = <<>>]

\* C10: over requests to all routes, the identifiers of the collection and
\* every field of every record but its comments stay as they are; the
\* collection changes only in the step that answers a comment request with
\* the success redirect, and that step adds the request's comment at the
\* end of the comments of exactly one record, so an earlier comments
\* sequence is always a prefix of a later one.
C10_OnlyCommentAppends ==
    [][/\ Len(wines') = Len(wines)
       /\ \A i \in Indexes(wines) :
              /\ WithoutComments(wines'[i]) = WithoutComments(wines[i])
              /\ IsPrefix(wines[i].comments, wines'[i].comments)
       /\ fs' = fs
       /\ wines' # wines =>
              \E c \in DOMAIN pc :
                  /\ Answered(c) /\ cresp'[c].status = 302
                  /\ \E i \in Indexes(wines) :
                         /\ wines'[i].comments = Append(wines[i].comments, creq[c].comment)
                         /\ \A j \in Indexes(wines) \ {i} : wines'[j] = wines[j]
       /\ \A c \in DOMAIN pc :
              (Answered(c) /\ cresp'[c].status = 302) => wines' # wines
      ]_vars

\* a comment was added to a record that had one before, and the detail
\* page of that record was then requested
C10_Witness ==
    /\ wines0[1].comments # <<>>
    /\ Len(wines[1].comments) > Len(wines0[1].comments)
    /\ resp.route = "wine_details" /\ resp.status = 200
    /\ resp.wine.comments = wines[1].comments


\* the value contains the text as a substring, letter case aside
ContainsCI(value, t) == value # NullStr /\ Contains(Lower(value), Lower(t))

ResultIds == {resp.results[k]._id : k \in 1..Len(resp.results)}

SearchedFields == {"title", "description", "winery", "variety"}

\* a search with the regex mode on all fields, no facet and, hence, no geo
\* clause was answered
AllFieldsSearch ==
    /\ resp.route = "search" /\ resp.status = 200
    /\ req.args.text # S_1
    /\ Strip(OrStr(req.args.field, S_all)) = S_all
    /\ req.args.country = <<>> /\ req.args.province = <<>>

\* C4 (as amended): with text mode off and field "all", for a query text
\* that is not empty once its surrounding whitespace is trimmed, a record
\* is matched iff one of its title, description, winery, variety contains
\* the trimmed text as a literal substring, letter case aside.
C4_TrimmedLiteralSubstring ==
    (AllFieldsSearch /\ Strip(req.args.q) # <<>>) =>
        /\ \A i \in Indexes(wines) :
               (wines[i]._id \in ResultIds)
                   <=> \E f \in SearchedFields : ContainsCI(wines[i][f], Strip(req.args.q))
        /\ resp.total = Cardinality(ResultIds)

\* the query a.b was searched in a record whose title is axb, and in one
\* whose title is A.B
C4_Witness ==
    /\ AllFieldsSearch
    /\ req.args.q = <<"a", ".", "b">>
    /\ \E i \in Indexes(wines) :
           /\ wines[i].title \in {<<"a", "x", "b">>, <<"A", ".", "B">>}
           /\ (wines[i]._id \in ResultIds) <=> (wines[i].title = <<"A", ".", "B">>)

\* C4 (as stated): the same for every non-empty query text as submitted,
\* whenever a text predicate was built.
C4_Original ==
    (AllFieldsSearch /\ req.args.q # <<>> /\ resp.filters # <<>>) =>
        \A i \in Indexes(wines) :
            (wines[i]._id \in ResultIds)
                <=> \E f \in SearchedFields : ContainsCI(wines[i][f], req.args.q)


----------------------------------------------------------------------------

Answered200 == resp.route = "search" /\ resp.status = 200

NoGeoClause == \A k \in 1..Len(resp.filters) : resp.filters[k].op # "geoWithin"

\* the record has the facet values of the request, trimmed
FacetMatch(d) ==
    /\ Strip(req.args.country) # <<>> => d.country = Strip(req.args.country)
    /\ Strip(req.args.province) # <<>> => d.province = Strip(req.args.province)

\* the sort key and direction the specification gives for a sort_by value
ClaimedKey(sb) == IF sb \in {S_price_asc, S_price_desc} THEN "price" ELSE "points"
ClaimedAsc(sb) == sb \in {S_price_asc, S_points_asc}

\* a may stand before b
InOrder(a, b, asc) == IF asc THEN a <= b ELSE a >= b

\* the result list is in the order of the sort_by value sb
ResultsSortedPer(sb) ==
    \A k \in 1..(Len(resp.results) - 1) :
        InOrder(resp.results[k][ClaimedKey(sb)],
                resp.results[k + 1][ClaimedKey(sb)], ClaimedAsc(sb))

\* the response is the page of the facet matches: the first 50 of them in
\* the order of sort_by, and the count of all of them
FacetPage ==
    LET M == {i \in Indexes(wines) : FacetMatch(wines[i])}
        sb == Strip(req.args.sort_by)
    IN /\ resp.total = Cardinality(M)
       /\ Len(resp.results) = (IF Cardinality(M) > 50 THEN 50 ELSE Cardinality(M))
       /\ Cardinality(ResultIds) = Len(resp.results)
       /\ ResultIds \subseteq {wines[i]._id : i \in M}
       /\ ResultsSortedPer(sb)
       /\ \A i \in M : wines[i]._id \notin ResultIds =>
              \A k \in 1..Len(resp.results) :
                  InOrder(resp.results[k][ClaimedKey(sb)],
                          wines[i][ClaimedKey(sb)], ClaimedAsc(sb))

\* C3 (as amended): a search with empty (trimmed) query text to whose
\* filter no geo predicate is added returns the records that equal the
\* trimmed country and province facets, in the order of sort_by, cut to
\* the first 50, and the total is the count of all those records.
C3_FacetPageWithoutGeo ==
    (Answered200 /\ Strip(req.args.q) = <<>> /\ NoGeoClause) => FacetPage

\* more than 50 records match the facets of a search without geo clause
C3_Witness ==
    /\ Answered200 /\ Strip(req.args.q) = <<>> /\ NoGeoClause
    /\ Strip(req.args.country) = IT
    /\ resp.total > 50 /\ Len(resp.results) = 50

\* C3 (as stated): the same for every search with empty query text and no
\* geo parameter supplied.
C3_Original ==
    (/\ Answered200 /\ Strip(req.args.q) = <<>>
     /\ req.args.geo_mode = <<>> /\ req.args.lat = <<>>
     /\ req.args.lon = <<>> /\ req.args.radius = <<>>) => FacetPage

\* C7 (as amended): the result list is sorted by price ascending for
\* sort_by price_asc, by price descending for price_desc, by score
\* ascending for points_asc, and by score descending for every other
\* value, sort_by being taken with its surrounding whitespace trimmed.
C7_SortKeyMapping ==
    Answered200 => ResultsSortedPer(Strip(req.args.sort_by))

\* an unrecognized sort_by gave a list whose scores differ
C7_Witness ==
    /\ Answered200 /\ req.args.sort_by = S_bogus
    /\ Len(resp.results) >= 2
    /\ resp.results[1].points > resp.results[Len(resp.results)].points

\* C7 (as stated): the same, sort_by being taken as submitted.
C7_Original ==
    Answered200 => ResultsSortedPer(req.args.sort_by)

\* the documents the text and facet clauses of the request select
TextAndFacetMatches ==
    {i \in Indexes(wines) :
        MatchesQuery(wines[i], TextFilters(resp.args) \o FacetFilters(resp.args))}

\* the latitude or the longitude of a by_coords search is no number
BadCoords ==
    /\ resp.route = "search"
    /\ Strip(OrStr(req.args.geo_mode, S_by_area)) = S_by_coords
    /\ (~ParseFloat(req.args.lat).ok \/ ~ParseFloat(req.args.lon).ok)

\* C6: a by_coords search whose lat or lon does not parse as a number is
\* answered normally, no geo predicate is in its filter, and its results
\* and total are those of the text and facet predicates alone.
C6_BadCoordsNoGeo ==
    BadCoords =>
        /\ resp.status = 200
        /\ NoGeoClause
        /\ resp.total = Cardinality(TextAndFacetMatches)
        /\ ResultIds = {wines[i]._id : i \in TextAndFacetMatches}

\* a by_coords search with lat "x", a positive radius and a record without
\* a place among its results
C6_Witness ==
    /\ BadCoords /\ resp.status = 200
    /\ req.args.lat = <<"x">> /\ req.args.lon = <<"0">>
    /\ resp.args.max_m > 0
    /\ \E i \in Indexes(wines) :
           wines[i].location = NoLocation /\ wines[i]._id \in ResultIds

\* C8 (as amended): a radius string whose conversion fails gives max_m = 0,
\* one that converts gives 1000 times its value, which is negative for a
\* negative radius; whenever max_m is not above 0 no geo predicate is added
\* in either geo mode.
C8_RadiusMeters ==
    resp.route = "search" =>
        LET f == ParseFloat(Strip(OrStr(req.args.radius, S_50))) IN
        /\ ~f.ok => resp.args.max_m = 0
        /\ f.ok => resp.args.max_m = 100 * f.tenths
        /\ resp.args.max_m <= 0 => NoGeoClause

\* a by_area search on a country with placed records, with a radius that
\* float() rejects
C8_Witness ==
    /\ Answered200
    /\ req.args.radius = <<"a", "b", "c">> /\ req.args.geo_mode = <<>>
    /\ req.args.country = IT /\ ~req.centroidFails
    /\ \E i \in Indexes(wines) : wines[i].location.type = "Point"
    /\ resp.args.max_m = 0 /\ resp.total = Len(wines)

\* C8 (as stated): max_m is never negative, is 0 when the conversion
\* fails, and with radius 0 no geo predicate is added.
C8_Original ==
    resp.route = "search" =>
        /\ resp.args.max_m >= 0
        /\ ~ParseFloat(Strip(OrStr(req.args.radius, S_50))).ok => resp.args.max_m = 0
        /\ resp.args.max_m = 0 => NoGeoClause

\* the by_area branch of the geo logic is taken
ByAreaActive ==
    /\ resp.args.geo_mode = S_by_area /\ resp.args.max_m > 0
    /\ (resp.args.country_filter # <<>> \/ resp.args.province_filter # <<>>)

\* C9: a search is answered normally whether or not the aggregations raise;
\* when the centroid aggregation raises there is no center and no geo
\* predicate, so that the results and the total are those of the text and
\* facet predicates; when the stats aggregation raises stats is null as a
\* whole, beside the results and the total of the filter; stats is never a
\* record with only some of its three keys.
C9_AggregationFailuresDegrade ==
    resp.route = "search" =>
        LET hits == {i \in Indexes(wines) : MatchesQuery(wines[i], resp.filters)} IN
        /\ resp.status = 200
        /\ (req.centroidFails /\ ByAreaActive) =>
               /\ ~resp.center_coords.found /\ NoGeoClause
               /\ resp.total = Cardinality(TextAndFacetMatches)
               /\ ResultIds = {wines[i]._id : i \in TextAndFacetMatches}
        /\ req.statsFails =>
               /\ resp.stats = StatsNone
               /\ resp.total = Cardinality(hits)
               /\ ResultIds = {wines[i]._id : i \in hits}
        /\ resp.stats = StatsNone
               \/ DOMAIN resp.stats = {"avgPrice", "avgPoints", "topVariety"}

\* both aggregations raised in a by_area search on a country with placed
\* records, and the search returned the records of the country
C9_Witness ==
    /\ Answered200 /\ req.centroidFails /\ req.statsFails /\ ByAreaActive
    /\ \E i \in Indexes(wines) : wines[i].location.type = "Point"
    /\ resp.total = Len(wines) /\ resp.stats = StatsNone

\* C5: topVariety is the variety with the largest count among the
\* country's records whose variety is neither null nor empty, and null
\* only when there is no such record; a country without records has
\* avgPrice, avgPoints and topVariety all null.
C5_TopVariety ==
    (Answered200 /\ resp.args.country_filter # <<>> /\ ~req.statsFails) =>
        LET I == {i \in Indexes(wines) : wines[i].country = resp.args.country_filter}
            R == {i \in I : wines[i].variety # NullStr /\ wines[i].variety # <<>>}
            count(v) == Cardinality({i \in R : wines[i].variety = v})
        IN /\ (resp.stats.topVariety = NullStr) <=> (R = {})
           /\ R # {} =>
                  /\ \E i \in R : wines[i].variety = resp.stats.topVariety
                  /\ \A i \in R : count(wines[i].variety) <= count(resp.stats.topVariety)
           /\ I = {} => /\ resp.stats.avgPrice = NullAvg
                        /\ resp.stats.avgPoints = NullAvg
                        /\ resp.stats.topVariety = NullStr

====
